---------------------------- MODULE Spec2Model ----------------------------
(***************************************************************************)
(* Model of scripts/validate-contacts.py: the ContactValidator class.      *)
(*                                                                         *)
(* A Python str is a sequence of one-character strings, so that strip,     *)
(* lower, split, count, the "in" substring test and the regular            *)
(* expressions are computed on the characters, as the code computes them.  *)
(* A contact is a record with the fields email, first_name and company;    *)
(* an absent key and an empty string are the same to every place that      *)
(* reads a field (contact.get(k, ''), "k not in contact or not             *)
(* contact[k]"), so an absent key is modelled as the empty string.         *)
(***************************************************************************)
EXTENDS Integers, Sequences, FiniteSets, TLC

VARIABLES
    contacts,         \* the records loaded from the input table (line 248),
                      \* as loaded: the rewriting of a record shows in
                      \* valid_contacts, invalid_contacts and audit
    check_mx,         \* the check_mx argument of validate_contact_list
    pc,               \* position of the run
    unique,           \* the list remove_duplicates returned (line 254)
    idx,              \* index of the next record of the loop at line 257
    stats,            \* self.stats
    valid_contacts,   \* self.valid_contacts
    invalid_contacts, \* self.invalid_contacts
    audit,            \* history: what the loop body did for each record
    report,           \* what generate_report returned
    arg,              \* argument of the function applied on its own
    oracle,           \* what validators.email answers for that argument
    ret               \* what the function applied on its own returned

vars == <<contacts, check_mx, pc, unique, idx, stats, valid_contacts,
          invalid_contacts, audit, report, arg, oracle, ret>>

None == "None"

-----------------------------------------------------------------------------
(* Python str operations *)

LowerLetters == {"a", "b", "c", "d", "e", "f", "g", "h", "i", "j", "k", "l", "m",
                 "n", "o", "p", "q", "r", "s", "t", "u", "v", "w", "x", "y", "z"}

UpperLetters == {"A", "B", "C", "D", "E", "F", "G", "H", "I", "J", "K", "L", "M",
                 "N", "O", "P", "Q", "R", "S", "T", "U", "V", "W", "X", "Y", "Z"}

Digits == {"0", "1", "2", "3", "4", "5", "6", "7", "8", "9"}

Letters == LowerLetters \cup UpperLetters

UpperSeq == <<"A", "B", "C", "D", "E", "F", "G", "H", "I", "J", "K", "L", "M", "N", "O", "P", "Q", "R", "S", "T", "U", "V", "W", "X", "Y", "Z">>

LowerSeq == <<"a", "b", "c", "d", "e", "f", "g", "h", "i", "j", "k", "l", "m", "n", "o", "p", "q", "r", "s", "t", "u", "v", "w", "x", "y", "z">>

\* str.lower() on one character
LowerChar(c) ==
    IF c \in UpperLetters
    THEN LowerSeq[CHOOSE i \in 1..26 : UpperSeq[i] = c]
    ELSE c

\* str.lower()
Lower(s) == [i \in 1..Len(s) |-> LowerChar(s[i])]

IsSpace(c) == c \in {" ", "\t", "\n"}

\* str.strip(): drops the leading and the trailing whitespace
Strip(s) ==
    LET keep == {i \in 1..Len(s) : ~IsSpace(s[i])}
    IN  IF keep = {} THEN <<>>
        ELSE LET lo == CHOOSE i \in keep : \A j \in keep : i <= j
                 hi == CHOOSE i \in keep : \A j \in keep : j <= i
             IN  SubSeq(s, lo, hi)

\* str.count(c) for a one-character c
Count(s, c) == Cardinality({i \in 1..Len(s) : s[i] = c})

\* sub in s
Contains(s, sub) ==
    \E i \in 1..(Len(s) - Len(sub) + 1) : SubSeq(s, i, i + Len(sub) - 1) = sub

\* s.startswith(p)
StartsWith(s, p) == Len(s) >= Len(p) /\ SubSeq(s, 1, Len(p)) = p

\* s.endswith(p)
EndsWith(s, p) == Len(s) >= Len(p) /\ SubSeq(s, Len(s) - Len(p) + 1, Len(s)) = p

\* s.split(c) for a one-character c: the list of the pieces between the c's
RECURSIVE Split(_, _)
Split(s, c) ==
    LET at == {i \in 1..Len(s) : s[i] = c}
    IN  IF at = {} THEN <<s>>
        ELSE LET i == CHOOSE k \in at : \A j \in at : k <= j
             IN  <<SubSeq(s, 1, i - 1)>> \o Split(SubSeq(s, i + 1, Len(s)), c)

\* ', '.join(parts)
RECURSIVE Join(_)
Join(parts) ==
    IF parts = <<>> THEN <<>>
    ELSE IF Len(parts) = 1 THEN parts[1]
    ELSE parts[1] \o <<",", " ">> \o Join(Tail(parts))

\* n copies of the character c
Rep(c, n) == [i \in 1..n |-> c]

-----------------------------------------------------------------------------
(* The tables of __init__ *)

disposable_domains ==
    { <<"1", "0", "m", "i", "n", "u", "t", "e", "m", "a", "i", "l", ".", "c", "o", "m">>, <<"t", "e", "m", "p", "m", "a", "i", "l", ".", "o", "r", "g">>, <<"g", "u", "e", "r", "r", "i", "l", "l", "a", "m", "a", "i", "l", ".", "c", "o", "m">>,
      <<"m", "a", "i", "l", "i", "n", "a", "t", "o", "r", ".", "c", "o", "m">>, <<"y", "o", "p", "m", "a", "i", "l", ".", "c", "o", "m">>, <<"t", "e", "m", "p", "-", "m", "a", "i", "l", ".", "o", "r", "g">>,
      <<"t", "h", "r", "o", "w", "a", "w", "a", "y", ".", "e", "m", "a", "i", "l">>, <<"f", "a", "k", "e", "i", "n", "b", "o", "x", ".", "c", "o", "m">>, <<"m", "a", "i", "l", "d", "r", "o", "p", ".", "c", "c">>,
      <<"s", "h", "a", "r", "k", "l", "a", "s", "e", "r", "s", ".", "c", "o", "m">>, <<"g", "u", "e", "r", "r", "i", "l", "l", "a", "m", "a", "i", "l", ".", "i", "n", "f", "o">>, <<"g", "r", "r", ".", "l", "a">> }

\* the dict as a set of <<key, value>> pairs
domain_typos ==
    { << <<"g", "m", "a", "i", ".", "c", "o", "m">>, <<"g", "m", "a", "i", "l", ".", "c", "o", "m">> >>,
      << <<"g", "m", "i", "a", "l", ".", "c", "o", "m">>, <<"g", "m", "a", "i", "l", ".", "c", "o", "m">> >>,
      << <<"g", "m", "a", "i", "l", ".", "c", "o">>, <<"g", "m", "a", "i", "l", ".", "c", "o", "m">> >>,
      << <<"h", "o", "t", "m", "i", "a", "l", ".", "c", "o", "m">>, <<"h", "o", "t", "m", "a", "i", "l", ".", "c", "o", "m">> >>,
      << <<"h", "o", "t", "m", "a", "i", ".", "c", "o", "m">>, <<"h", "o", "t", "m", "a", "i", "l", ".", "c", "o", "m">> >>,
      << <<"y", "a", "h", "o", "o", "o", ".", "c", "o", "m">>, <<"y", "a", "h", "o", "o", ".", "c", "o", "m">> >>,
      << <<"y", "a", "h", "o", ".", "c", "o", "m">>, <<"y", "a", "h", "o", "o", ".", "c", "o", "m">> >>,
      << <<"o", "u", "t", "l", "o", "k", ".", "c", "o", "m">>, <<"o", "u", "t", "l", "o", "o", "k", ".", "c", "o", "m">> >>,
      << <<"o", "u", "t", "l", "o", "o", ".", "c", "o", "m">>, <<"o", "u", "t", "l", "o", "o", "k", ".", "c", "o", "m">> >> }

TypoKeys == {p[1] : p \in domain_typos}

TypoValue(k) == (CHOOSE p \in domain_typos : p[1] = k)[2]

\* self.stats as __init__ leaves it; the two dicts are functions
InitStats ==
    [ total_contacts     |-> 0,
      valid_contacts     |-> 0,
      invalid_contacts   |-> 0,
      duplicates_removed |-> 0,
      validation_errors  |-> <<>>,
      domain_stats       |-> <<>>,
      validation_time    |-> None ]

-----------------------------------------------------------------------------
(* check_domain_typos *)

\* The outcome of a call: a returned value, or an exception raised.
Returned(v) == [raised |-> FALSE, value |-> v]

Raised(e) == [raised |-> TRUE, value |-> e]

\* "local, domain = email.split('@')" raises ValueError unless split gives
\* exactly two pieces.
check_domain_typos(email) ==
    IF Count(email, "@") = 0 THEN Returned(email)
    ELSE LET parts == Split(email, "@")
         IN  IF Len(parts) # 2 THEN Raised("ValueError")
             ELSE LET local  == parts[1]
                      domain == parts[2]
                  IN  IF domain \in TypoKeys
                      THEN Returned(local \o <<"@">> \o TypoValue(domain))
                      ELSE Returned(email)


-----------------------------------------------------------------------------
(* validate_email_format *)

\* [a-zA-Z0-9._%+-]
LocalChars == Letters \cup Digits \cup {".", "_", "%", "+", "-"}

\* [a-zA-Z0-9.-]
DomainChars == Letters \cup Digits \cup {".", "-"}

MaxLocalPart == 64

MaxDomainPart == 253

\* re.match(r'^[a-zA-Z0-9._%+-]+@[a-zA-Z0-9.-]+\.[a-zA-Z]{2,}$', email), as the
\* matcher scans: the first class runs up to the first character outside it,
\* which has to be the '@'; what follows has to be of the second class up to
\* its last '.', which has to be followed by letters only, two or more.
\* (The code matches a stripped string, so the '$' that also matches before a
\* final newline has no final newline to match before.)
EmailRegexMatch(email) ==
    LET n     == Len(email)
        stops == {i \in 1..n : email[i] \notin LocalChars}
    IN  /\ stops # {}
        /\ LET a    == CHOOSE i \in stops : \A j \in stops : i <= j
               rest == SubSeq(email, a + 1, n)
               dots == {i \in 1..Len(rest) : rest[i] = "."}
           IN  /\ a > 1
               /\ email[a] = "@"
               /\ \A i \in 1..Len(rest) : rest[i] \in DomainChars
               /\ dots # {}
               /\ LET k == CHOOSE i \in dots : \A j \in dots : j <= i
                  IN  /\ k > 1
                      /\ Len(rest) - k >= 2
                      /\ \A i \in (k + 1)..Len(rest) : rest[i] \in Letters

\* Lines 118-135: the checks on the two pieces of the split at line 116
PartChecks(local, domain) ==
    IF Len(local) > MaxLocalPart THEN <<FALSE, <<"L", "o", "c", "a", "l", " ", "p", "a", "r", "t", " ", "t", "o", "o", " ", "l", "o", "n", "g">>>>
    ELSE IF StartsWith(local, <<".">>) \/ EndsWith(local, <<".">>)
    THEN <<FALSE, <<"L", "o", "c", "a", "l", " ", "p", "a", "r", "t", " ", "c", "a", "n", "n", "o", "t", " ", "s", "t", "a", "r", "t", "/", "e", "n", "d", " ", "w", "i", "t", "h", " ", "d", "o", "t">>>>
    ELSE IF Contains(local, <<".", ".">>)
    THEN <<FALSE, <<"C", "o", "n", "s", "e", "c", "u", "t", "i", "v", "e", " ", "d", "o", "t", "s", " ", "i", "n", " ", "l", "o", "c", "a", "l", " ", "p", "a", "r", "t">>>>
    ELSE IF Len(domain) > MaxDomainPart THEN <<FALSE, <<"D", "o", "m", "a", "i", "n", " ", "t", "o", "o", " ", "l", "o", "n", "g">>>>
    ELSE IF StartsWith(domain, <<"-">>) \/ EndsWith(domain, <<"-">>)
    THEN <<FALSE, <<"D", "o", "m", "a", "i", "n", " ", "c", "a", "n", "n", "o", "t", " ", "s", "t", "a", "r", "t", "/", "e", "n", "d", " ", "w", "i", "t", "h", " ", "h", "y", "p", "h", "e", "n">>>>
    ELSE <<TRUE, <<"V", "a", "l", "i", "d", " ", "f", "o", "r", "m", "a", "t">>>>

\* Lines 103-116, on the email as line 101 normalised it.  validators_ok is
\* what validators.email(email) answers (a third-party library: any answer is
\* allowed for).
NormalizedChecks(email, validators_ok) ==
    IF ~EmailRegexMatch(email) THEN <<FALSE, <<"I", "n", "v", "a", "l", "i", "d", " ", "e", "m", "a", "i", "l", " ", "f", "o", "r", "m", "a", "t">>>>
    ELSE IF ~validators_ok
    THEN <<FALSE, <<"I", "n", "v", "a", "l", "i", "d", " ", "e", "m", "a", "i", "l", " ", "f", "o", "r", "m", "a", "t", " ", "(", "f", "a", "i", "l", "e", "d", " ", "v", "a", "l", "i", "d", "a", "t", "o", "r", "s", " ", "c", "h", "e", "c", "k", ")">>>>
    ELSE IF Count(email, "@") # 1 THEN <<FALSE, <<"M", "u", "l", "t", "i", "p", "l", "e", " ", "@", " ", "s", "y", "m", "b", "o", "l", "s">>>>
    ELSE PartChecks(Split(email, "@")[1], Split(email, "@")[2])

\* A variant that does not strip the email.
validate_email_format_unstripped(email, validators_ok) ==
    IF email = <<>> THEN <<FALSE, <<"E", "m", "p", "t", "y", " ", "o", "r", " ", "i", "n", "v", "a", "l", "i", "d", " ", "e", "m", "a", "i", "l">>>>
    ELSE NormalizedChecks(Lower(email), validators_ok)

validate_email_format(email, validators_ok) ==
    IF email = <<>> THEN <<FALSE, <<"E", "m", "p", "t", "y", " ", "o", "r", " ", "i", "n", "v", "a", "l", "i", "d", " ", "e", "m", "a", "i", "l">>>>
    ELSE NormalizedChecks(Lower(Strip(email)), validators_ok)

-----------------------------------------------------------------------------
(* check_disposable_email, validate_mx_record, validate_required_fields *)

check_disposable_email(email) ==
    IF Count(email, "@") = 0 THEN FALSE
    ELSE Lower(Split(email, "@")[2]) \in disposable_domains

\* What dns.resolver.resolve(domain, 'MX') does: it answers (one record here),
\* or it raises NXDOMAIN, NoAnswer, or another exception.  It raises NoAnswer
\* rather than answer nothing, so the else of line 164 is not taken.  The text
\* of the other exception is the library's; dnspython's NoNameservers names
\* the query in it ("All nameservers failed to answer the query <name>. IN
\* MX: ...").
MxOutcomes == {"found", "NXDOMAIN", "NoAnswer", "NoNameservers"}

validate_mx_record(domain, outcome) ==
    CASE outcome = "found"    -> <<TRUE, <<"V", "a", "l", "i", "d", " ", "M", "X", " ", "r", "e", "c", "o", "r", "d", "s", ":", " ", "1", " ", "f", "o", "u", "n", "d">>>>
      [] outcome = "NXDOMAIN" -> <<FALSE, <<"D", "o", "m", "a", "i", "n", " ", "d", "o", "e", "s", " ", "n", "o", "t", " ", "e", "x", "i", "s", "t">>>>
      [] outcome = "NoAnswer" -> <<FALSE, <<"N", "o", " ", "M", "X", " ", "r", "e", "c", "o", "r", "d", "s", " ", "f", "o", "r", " ", "d", "o", "m", "a", "i", "n">>>>
      [] OTHER ->
            <<FALSE, <<"D", "N", "S", " ", "l", "o", "o", "k", "u", "p", " ", "e", "r", "r", "o", "r", ":", " ">>
                     \o <<"A", "l", "l", " ", "n", "a", "m", "e", "s", "e", "r", "v", "e", "r", "s", " ", "f", "a", "i", "l", "e", "d", " ", "t", "o", " ", "a", "n", "s", "w", "e", "r", " ", "t", "h", "e", " ", "q", "u", "e", "r", "y", " ">>
                     \o domain \o <<".", " ", "I", "N", " ", "M", "X">>>>

\* "field not in contact or not contact[field] or str(...).strip() == ''"
FieldMissing(contact, field) ==
    contact[field] = <<>> \/ Strip(contact[field]) = <<>>

validate_required_fields(contact) ==
    LET missing_fields ==
            (IF FieldMissing(contact, "email") THEN << <<"e", "m", "a", "i", "l">> >> ELSE <<>>)
            \o (IF FieldMissing(contact, "first_name")
                THEN << <<"f", "i", "r", "s", "t", "_", "n", "a", "m", "e">> >> ELSE <<>>)
    IN  <<Len(missing_fields) = 0, missing_fields>>

-----------------------------------------------------------------------------
(* check_data_quality *)

\* re.match(pattern, email) for each of test_patterns: a pattern ending in
\* '.*' matches a prefix, one starting with '.*' matches anywhere.
MatchesTestPattern(email) ==
    \/ StartsWith(email, <<"t", "e", "s", "t", "@">>)
    \/ Contains(email, <<"@", "t", "e", "s", "t", ".">>)
    \/ Contains(email, <<"@", "e", "x", "a", "m", "p", "l", "e", ".">>)
    \/ Contains(email, <<"p", "l", "a", "c", "e", "h", "o", "l", "d", "e", "r">>)
    \/ Contains(email, <<"s", "a", "m", "p", "l", "e">>)
    \/ StartsWith(email, <<"j", "o", "h", "n", "d", "o", "e", "@">>) \/ StartsWith(email, <<"j", "o", "h", "n", ".", "d", "o", "e", "@">>)
    \/ StartsWith(email, <<"j", "a", "n", "e", "d", "o", "e", "@">>) \/ StartsWith(email, <<"j", "a", "n", "e", ".", "d", "o", "e", "@">>)

MinFirstNameLen == 2

MinCompanyLen == 2

\* A variant whose name test is "<=" where the code has "<".
check_data_quality_le(contact) ==
    LET email      == Lower(contact.email)
        first_name == Strip(contact.first_name)
        company    == Strip(contact.company)
    IN  (IF MatchesTestPattern(email)
         THEN << <<"A", "p", "p", "e", "a", "r", "s", " ", "t", "o", " ", "b", "e", " ", "t", "e", "s", "t", "/", "p", "l", "a", "c", "e", "h", "o", "l", "d", "e", "r", " ", "d", "a", "t", "a">> >> ELSE <<>>)
        \o (IF first_name # <<>> /\ Len(first_name) <= MinFirstNameLen
            THEN << <<"F", "i", "r", "s", "t", " ", "n", "a", "m", "e", " ", "t", "o", "o", " ", "s", "h", "o", "r", "t">> >> ELSE <<>>)
        \o (IF first_name # <<>> /\ \A i \in 1..Len(first_name) :
                                        first_name[i] \notin Letters
            THEN << <<"F", "i", "r", "s", "t", " ", "n", "a", "m", "e", " ", "c", "o", "n", "t", "a", "i", "n", "s", " ", "n", "o", " ", "l", "e", "t", "t", "e", "r", "s">> >> ELSE <<>>)
        \o (IF company # <<>> /\ Len(company) < MinCompanyLen
            THEN << <<"C", "o", "m", "p", "a", "n", "y", " ", "n", "a", "m", "e", " ", "t", "o", "o", " ", "s", "h", "o", "r", "t">> >> ELSE <<>>)

check_data_quality(contact) ==
    LET email      == Lower(contact.email)
        first_name == Strip(contact.first_name)
        company    == Strip(contact.company)
    IN  (IF MatchesTestPattern(email)
         THEN << <<"A", "p", "p", "e", "a", "r", "s", " ", "t", "o", " ", "b", "e", " ", "t", "e", "s", "t", "/", "p", "l", "a", "c", "e", "h", "o", "l", "d", "e", "r", " ", "d", "a", "t", "a">> >> ELSE <<>>)
        \o (IF first_name # <<>> /\ Len(first_name) < MinFirstNameLen
            THEN << <<"F", "i", "r", "s", "t", " ", "n", "a", "m", "e", " ", "t", "o", "o", " ", "s", "h", "o", "r", "t">> >> ELSE <<>>)
        \o (IF first_name # <<>> /\ \A i \in 1..Len(first_name) :
                                        first_name[i] \notin Letters
            THEN << <<"F", "i", "r", "s", "t", " ", "n", "a", "m", "e", " ", "c", "o", "n", "t", "a", "i", "n", "s", " ", "n", "o", " ", "l", "e", "t", "t", "e", "r", "s">> >> ELSE <<>>)
        \o (IF company # <<>> /\ Len(company) < MinCompanyLen
            THEN << <<"C", "o", "m", "p", "a", "n", "y", " ", "n", "a", "m", "e", " ", "t", "o", "o", " ", "s", "h", "o", "r", "t">> >> ELSE <<>>)

-----------------------------------------------------------------------------
(* remove_duplicates *)

\* The loop of lines 227-233 from record i on: seen is seen_emails, kept is
\* unique_contacts, dups is duplicates.
RECURSIVE DedupLoop(_, _, _, _, _)
DedupLoop(cs, i, seen, kept, dups) ==
    IF i > Len(cs) THEN [unique |-> kept, duplicates |-> dups]
    ELSE LET email == Lower(Strip(cs[i].email))
         IN  IF email # <<>> /\ email \notin seen
             THEN DedupLoop(cs, i + 1, seen \cup {email}, Append(kept, cs[i]), dups)
             ELSE DedupLoop(cs, i + 1, seen, kept, dups + 1)

\* A variant of the loop that compares the emails as they are written.
RECURSIVE DedupLoopRaw(_, _, _, _, _)
DedupLoopRaw(cs, i, seen, kept, dups) ==
    IF i > Len(cs) THEN [unique |-> kept, duplicates |-> dups]
    ELSE LET email == cs[i].email
         IN  IF email # <<>> /\ email \notin seen
             THEN DedupLoopRaw(cs, i + 1, seen \cup {email}, Append(kept, cs[i]), dups)
             ELSE DedupLoopRaw(cs, i + 1, seen, kept, dups + 1)

remove_duplicates_raw(cs) == DedupLoopRaw(cs, 1, {}, <<>>, 0)

\* A variant that counts the duplicates as the records less the distinct emails.
remove_duplicates_distinct(cs) ==
    [unique     |-> DedupLoop(cs, 1, {}, <<>>, 0).unique,
     duplicates |-> Len(cs) - Cardinality({Lower(Strip(cs[i].email)) : i \in 1..Len(cs)})]

\* returns the list, and the number it stores in stats['duplicates_removed']
remove_duplicates(cs) == DedupLoop(cs, 1, {}, <<>>, 0)

-----------------------------------------------------------------------------
(* validate_contact_list: the body of the loop over the records *)

\* A dict is the sequence of its <<key, value>> pairs in insertion order.
HasKey(d, k) == \E i \in 1..Len(d) : d[i][1] = k

Get(d, k) == d[CHOOSE i \in 1..Len(d) : d[i][1] = k][2]

Put(d, k, v) ==
    IF HasKey(d, k)
    THEN [i \in 1..Len(d) |-> IF d[i][1] = k THEN <<k, v>> ELSE d[i]]
    ELSE Append(d, <<k, v>>)

NoLookup == [done |-> FALSE, domain |-> <<>>, mx_valid |-> FALSE]

\* Line 279: what validate_email_format returned, followed by the email it
\* was given
FormatCheck(email, validators_ok) ==
    validate_email_format(email, validators_ok) \o <<email>>

\* Lines 283-301: the checks after the format check.  email0 is the email as
\* line 269 normalised it, email is it after the typo correction, fmt is what
\* the format check gave, mx what validate_mx_record returns if asked.
ReputationAndQuality(contact, email0, email, fmt, look, domain, mx) ==
    [raised |-> FALSE, contact |-> contact,
     errors |->
        (IF email # email0
         THEN << <<"D", "o", "m", "a", "i", "n", " ", "t", "y", "p", "o", " ", "c", "o", "r", "r", "e", "c", "t", "e", "d", ":", " ">> \o email0 \o <<" ", "-", ">", " ">> \o email >>
         ELSE <<>>)
        \o (IF ~fmt[1] THEN << <<"E", "m", "a", "i", "l", " ", "f", "o", "r", "m", "a", "t", ":", " ">> \o fmt[2] >> ELSE <<>>)
        \o (IF check_disposable_email(email)
            THEN << <<"D", "i", "s", "p", "o", "s", "a", "b", "l", "e", " ", "e", "m", "a", "i", "l", " ", "a", "d", "d", "r", "e", "s", "s">> >> ELSE <<>>)
        \o (IF look /\ ~mx[1] THEN << <<"D", "o", "m", "a", "i", "n", " ", "v", "a", "l", "i", "d", "a", "t", "i", "o", "n", ":", " ">> \o mx[2] >> ELSE <<>>)
        \o check_data_quality(contact),
     checked |-> TRUE, format_valid |-> fmt[1], format_input |-> fmt[3],
     lookup |-> IF look THEN [done |-> TRUE, domain |-> domain, mx_valid |-> mx[1]]
                ELSE NoLookup]

\* Lines 278-292: the format check, and the MX lookup when check_mx is set and
\* the format is valid
FormatAndLookup(contact, email0, email, fmt, mx_on, mx_outcome) ==
    IF mx_on /\ fmt[1]
    THEN ReputationAndQuality(contact, email0, email, fmt, TRUE,
                              Split(email, "@")[2],
                              validate_mx_record(Split(email, "@")[2], mx_outcome))
    ELSE ReputationAndQuality(contact, email0, email, fmt, FALSE, <<>>, <<FALSE, <<>>>>)

\* A variant whose format check reads the email as it was before the typo
\* correction.
TypoCorrection_stale(contact, email0, typo, mx_on, validators_ok, mx_outcome) ==
    IF typo.raised
    THEN [raised |-> TRUE, contact |-> contact, errors |-> <<>>,
          checked |-> FALSE, format_valid |-> FALSE, format_input |-> None,
          lookup |-> NoLookup]
    ELSE FormatAndLookup(IF typo.value # email0
                         THEN [contact EXCEPT !.email = typo.value] ELSE contact,
                         email0, typo.value,
                         FormatCheck(email0, validators_ok),
                         mx_on, mx_outcome)

\* Lines 272-279: typo is the outcome of check_domain_typos(email0); a
\* correction rewrites contact['email'], and the format check reads the
\* email after it
TypoCorrection(contact, email0, typo, mx_on, validators_ok, mx_outcome) ==
    IF typo.raised
    THEN [raised |-> TRUE, contact |-> contact, errors |-> <<>>,
          checked |-> FALSE, format_valid |-> FALSE, format_input |-> None,
          lookup |-> NoLookup]
    ELSE FormatAndLookup(IF typo.value # email0
                         THEN [contact EXCEPT !.email = typo.value] ELSE contact,
                         email0, typo.value,
                         FormatCheck(typo.value, validators_ok),
                         mx_on, mx_outcome)

\* Lines 261-301: the checks on one record, in the order of the code.  The
\* result holds the record as the checks left it, contact_errors, and the MX
\* lookup made, if any; or it says that check_domain_typos raised.
CollectIssues(contact, mx_on, validators_ok, mx_outcome) ==
    IF ~validate_required_fields(contact)[1]
    THEN [raised |-> FALSE, contact |-> contact,
          errors |-> << <<"M", "i", "s", "s", "i", "n", "g", " ", "r", "e", "q", "u", "i", "r", "e", "d", " ", "f", "i", "e", "l", "d", "s", ":", " ">>
                        \o Join(validate_required_fields(contact)[2]) >>,
          checked |-> FALSE, format_valid |-> FALSE, format_input |-> None,
          lookup |-> NoLookup]
    ELSE TypoCorrection(contact, Lower(Strip(contact.email)),
                        check_domain_typos(Lower(Strip(contact.email))),
                        mx_on, validators_ok, mx_outcome)

\* Lines 295-297
UpdateDomainStats(domain_stats, domain, mx_valid) ==
    LET ds == IF ~HasKey(domain_stats, domain)
              THEN Put(domain_stats, domain, [count |-> 0, valid |-> mx_valid])
              ELSE domain_stats
        old == Get(ds, domain)
    IN  Put(ds, domain, [old EXCEPT !.count = @ + 1])

\* Line 304: not contact_errors or all('corrected' in error ...)
IsClassifiedValid(contact_errors) ==
    \/ contact_errors = <<>>
    \/ \A i \in 1..Len(contact_errors) : Contains(contact_errors[i], <<"c", "o", "r", "r", "e", "c", "t", "e", "d">>)

\* Line 314
ErrorType(error) == IF Count(error, ":") > 0 THEN Split(error, ":")[1] ELSE error

\* Lines 313-316
RECURSIVE TrackErrorTypes(_, _)
TrackErrorTypes(validation_errors, contact_errors) ==
    IF contact_errors = <<>> THEN validation_errors
    ELSE LET t == ErrorType(Head(contact_errors))
             n == IF HasKey(validation_errors, t) THEN Get(validation_errors, t) ELSE 0
         IN  TrackErrorTypes(Put(validation_errors, t, n + 1), Tail(contact_errors))

\* Lines 294-316: self.stats after a record whose checks gave r
StatsAfter(st, r) ==
    LET st1 == IF r.lookup.done
               THEN [st EXCEPT !.domain_stats =
                        UpdateDomainStats(@, r.lookup.domain, r.lookup.mx_valid)]
               ELSE st
    IN  IF IsClassifiedValid(r.errors)
        THEN [st1 EXCEPT !.valid_contacts = @ + 1]
        ELSE [st1 EXCEPT !.invalid_contacts = @ + 1,
                         !.validation_errors = TrackErrorTypes(@, r.errors)]

\* contact['validation_errors'] = contact_errors
WithErrors(contact, contact_errors) ==
    [f \in DOMAIN contact \cup {"validation_errors"} |->
        IF f = "validation_errors" THEN contact_errors ELSE contact[f]]

-----------------------------------------------------------------------------
(* generate_report *)

DigitSeq == <<"0", "1", "2", "3", "4", "5", "6", "7", "8", "9">>

\* str(n) for n >= 0
RECURSIVE DecStr(_)
DecStr(n) ==
    IF n < 10 THEN <<DigitSeq[n + 1]>>
    ELSE DecStr(n \div 10) \o <<DigitSeq[(n % 10) + 1]>>

\* f"{n:,}": the decimal digits in groups of three
RECURSIVE FmtInt(_)
FmtInt(n) ==
    IF n < 1000 THEN DecStr(n)
    ELSE LET low == n % 1000
             pad == IF low < 10 THEN <<"0", "0">> ELSE IF low < 100 THEN <<"0">> ELSE <<>>
         IN  FmtInt(n \div 1000) \o <<",">> \o pad \o DecStr(low)

\* f"{(part / whole) * 100:.1f}" for whole > 0: the quotient rounded to a tenth
\* (to the even tenth when it is half way)
FmtRate(part, whole) ==
    LET q      == (part * 1000) \div whole
        r      == (part * 1000) % whole
        tenths == IF 2 * r > whole \/ (2 * r = whole /\ q % 2 = 1) THEN q + 1 ELSE q
    IN  DecStr(tenths \div 10) \o <<".">> \o DecStr(tenths % 10)

\* The order sorted(..., key=count, reverse=True) gives to items whose counts
\* are the sequence counts: by falling count, equal counts in the given order.
\* left is the set of the indices not placed yet.
RECURSIVE SortOrder(_, _)
SortOrder(counts, left) ==
    IF left = {} THEN <<>>
    ELSE LET i == CHOOSE k \in left :
                     \A j \in left : \/ counts[j] < counts[k]
                                     \/ (counts[j] = counts[k] /\ k <= j)
         IN  <<i>> \o SortOrder(counts, left \ {i})

SortedDesc(items, counts) ==
    LET order == SortOrder(counts, 1..Len(items))
    IN  [i \in 1..Len(items) |-> items[order[i]]]

TopDomains == 10

\* A variant that renders a rate of 0.0 when nothing was loaded.
RateLines_always(st) ==
    << <<"V", "a", "l", "i", "d", "a", "t", "i", "o", "n", " ", "r", "a", "t", "e", ":", " ">>
       \o (IF st.total_contacts > 0
           THEN FmtRate(st.valid_contacts, st.total_contacts) ELSE <<"0", ".", "0">>)
       \o <<"%">> >>

\* Lines 365-367: the line of the validation rate, when there is one
RateLines(st) ==
    IF st.total_contacts > 0
    THEN << <<"V", "a", "l", "i", "d", "a", "t", "i", "o", "n", " ", "r", "a", "t", "e", ":", " ">>
            \o FmtRate(st.valid_contacts, st.total_contacts) \o <<"%">> >>
    ELSE <<>>

\* Lines 357-369
SummaryLines(st) ==
    << <<"S", "U", "M", "M", "A", "R", "Y", " ", "S", "T", "A", "T", "I", "S", "T", "I", "C", "S">>,
       Rep("-", 30),
       <<"T", "o", "t", "a", "l", " ", "c", "o", "n", "t", "a", "c", "t", "s", " ", "p", "r", "o", "c", "e", "s", "s", "e", "d", ":", " ">> \o FmtInt(st.total_contacts),
       <<"V", "a", "l", "i", "d", " ", "c", "o", "n", "t", "a", "c", "t", "s", ":", " ">> \o FmtInt(st.valid_contacts),
       <<"I", "n", "v", "a", "l", "i", "d", " ", "c", "o", "n", "t", "a", "c", "t", "s", ":", " ">> \o FmtInt(st.invalid_contacts),
       <<"D", "u", "p", "l", "i", "c", "a", "t", "e", "s", " ", "r", "e", "m", "o", "v", "e", "d", ":", " ">> \o FmtInt(st.duplicates_removed) >>
    \o RateLines(st)
    \o << <<>> >>

\* Lines 372-378
ErrorLines(st) ==
    IF st.validation_errors = <<>> THEN <<>>
    ELSE LET items == SortedDesc(st.validation_errors,
                                   [i \in 1..Len(st.validation_errors) |->
                                       st.validation_errors[i][2]])
         IN  << <<"E", "R", "R", "O", "R", " ", "B", "R", "E", "A", "K", "D", "O", "W", "N">>, Rep("-", 30) >>
             \o [i \in 1..Len(items) |->
                    items[i][1] \o <<":", " ">> \o FmtInt(items[i][2]) \o <<" ", "c", "o", "n", "t", "a", "c", "t", "s">>]
             \o << <<>> >>

\* Lines 381-389; the check mark and the cross are written "+" and "x"
DomainLines(st) ==
    IF st.domain_stats = <<>> THEN <<>>
    ELSE LET items == SortedDesc(st.domain_stats,
                                   [i \in 1..Len(st.domain_stats) |->
                                       st.domain_stats[i][2].count])
             n     == IF Len(items) < TopDomains THEN Len(items) ELSE TopDomains
         IN  << <<"T", "O", "P", " ", "D", "O", "M", "A", "I", "N", "S">>, Rep("-", 30) >>
             \o [i \in 1..n |->
                    (IF items[i][2].valid THEN <<"+">> ELSE <<"x">>) \o <<" ">>
                    \o items[i][1] \o <<":", " ">> \o FmtInt(items[i][2].count)
                    \o <<" ", "c", "o", "n", "t", "a", "c", "t", "s">>]
             \o << <<>> >>

\* Lines 392-409; the bullet is written "*"
RecommendationLines(st) ==
    LET high == st.total_contacts > 0
                /\ st.invalid_contacts * 100 > 10 * st.total_contacts
        keys == {st.validation_errors[i][1] : i \in 1..Len(st.validation_errors)}
    IN  << <<"R", "E", "C", "O", "M", "M", "E", "N", "D", "A", "T", "I", "O", "N", "S">>, Rep("-", 30) >>
        \o (IF st.invalid_contacts > 0
            THEN << <<"*", " ", "R", "e", "m", "o", "v", "e", " ", "i", "n", "v", "a", "l", "i", "d", " ", "c", "o", "n", "t", "a", "c", "t", "s", " ", "b", "e", "f", "o", "r", "e", " ", "s", "e", "n", "d", "i", "n", "g", " ", "e", "m", "a", "i", "l", "s">> >> ELSE <<>>)
        \o (IF st.duplicates_removed > 0
            THEN << <<"*", " ", "I", "m", "p", "l", "e", "m", "e", "n", "t", " ", "d", "e", "d", "u", "p", "l", "i", "c", "a", "t", "i", "o", "n", " ", "i", "n", " ", "y", "o", "u", "r", " ", "d", "a", "t", "a", " ", "c", "o", "l", "l", "e", "c", "t", "i", "o", "n", " ", "p", "r", "o", "c", "e", "s", "s">> >>
            ELSE <<>>)
        \o (IF high
            THEN << <<"*", " ", "H", "i", "g", "h", " ", "i", "n", "v", "a", "l", "i", "d", " ", "c", "o", "n", "t", "a", "c", "t", " ", "r", "a", "t", "e", " ", "-", " ", "r", "e", "v", "i", "e", "w", " ", "d", "a", "t", "a", " ", "c", "o", "l", "l", "e", "c", "t", "i", "o", "n", " ", "q", "u", "a", "l", "i", "t", "y">> >>
            ELSE <<>>)
        \o (IF \E k \in keys : Contains(k, <<"D", "i", "s", "p", "o", "s", "a", "b", "l", "e", " ", "e", "m", "a", "i", "l">>)
            THEN << <<"*", " ", "C", "o", "n", "s", "i", "d", "e", "r", " ", "b", "l", "o", "c", "k", "i", "n", "g", " ", "d", "i", "s", "p", "o", "s", "a", "b", "l", "e", " ", "e", "m", "a", "i", "l", " ", "s", "e", "r", "v", "i", "c", "e", "s">> >> ELSE <<>>)
        \o (IF \E k \in keys : Contains(k, <<"D", "o", "m", "a", "i", "n", " ", "v", "a", "l", "i", "d", "a", "t", "i", "o", "n">>)
            THEN << <<"*", " ", "S", "o", "m", "e", " ", "d", "o", "m", "a", "i", "n", "s", " ", "h", "a", "v", "e", " ", "D", "N", "S", " ", "i", "s", "s", "u", "e", "s", " ", "-", " ", "d", "o", "u", "b", "l", "e", "-", "c", "h", "e", "c", "k", " ", "b", "e", "f", "o", "r", "e", " ", "r", "e", "m", "o", "v", "i", "n", "g">> >>
            ELSE <<>>)

\* The list of the lines of the report, or the exception raised: formatting
\* validation_time with ".2f" raises TypeError while it is None.  The clock
\* and the elapsed time are written as the texts <now> and <elapsed>.
generate_report(st) ==
    IF st.validation_time = None THEN Raised("TypeError")
    ELSE Returned(
            << Rep("=", 60), <<"C", "O", "N", "T", "A", "C", "T", " ", "L", "I", "S", "T", " ", "V", "A", "L", "I", "D", "A", "T", "I", "O", "N", " ", "R", "E", "P", "O", "R", "T">>, Rep("=", 60),
               <<"G", "e", "n", "e", "r", "a", "t", "e", "d", ":", " ", "<", "n", "o", "w", ">">>,
               <<"V", "a", "l", "i", "d", "a", "t", "i", "o", "n", " ", "t", "i", "m", "e", ":", " ", "<", "e", "l", "a", "p", "s", "e", "d", ">", " ", "s", "e", "c", "o", "n", "d", "s">>,
               <<>> >>
            \o SummaryLines(st)
            \o ErrorLines(st)
            \o DomainLines(st)
            \o RecommendationLines(st)
            \o << <<>>, Rep("=", 60) >>)

-----------------------------------------------------------------------------
(* The inputs *)

Contact(email, first_name, company) ==
    [email |-> email, first_name |-> first_name, company |-> company]

ContactPool ==
    { Contact(<<"a", "@", "b", ".", "c", "o">>, <<"A", "l">>, <<>>),
      Contact(<<"A", "@", "B", ".", "c", "o", " ">>, <<"B", "o">>, <<>>),
      Contact(<<>>, <<"A", "l">>, <<>>),
      Contact(<<" ">>, <<"J", "a", "n", "e">>, <<>>),
      Contact(<<"u", "@", "g", "m", "a", "i", ".", "c", "o", "m">>, <<"A", "l">>, <<>>),
      Contact(<<"u", "@", "g", "r", "r", ".", "l", "a">>, <<"A", "l">>, <<>>),
      Contact(<<"t", "e", "s", "t", "@", "b", ".", "c", "o">>, <<"J", "o", "h", "n">>, <<>>),
      Contact(<<"a", "@", "b", "@", "c", ".", "c", "o">>, <<"A", "l">>, <<>>),
      Contact(<<"a", "b">>, <<"A", "l">>, <<>>),
      Contact(<<"u", "@", "c", "o", "r", "r", "e", "c", "t", "e", "d", ".", "c", "o">>, <<"A", "l">>, <<"A", "c">>),
      Contact(<<"c", "@", "d", ".", "c", "o">>, <<"A", "l">>, <<"X">>),
      Contact(<<"c", "@", "b", ".", "c", "o">>, <<" ", "a">>, <<>>),
      Contact(<<"e", "@", "b", ".", "c", "o">>, <<>>, <<>>) }

MaxContacts == 2

SeqsUpTo(S, n) == UNION {[1..k -> S] : k \in 0..n}

-----------------------------------------------------------------------------
(* validate_contact_list *)

Idle ==
    /\ arg = None
    /\ oracle = FALSE
    /\ ret = None

Init ==
    /\ contacts \in SeqsUpTo(ContactPool, MaxContacts)
    /\ check_mx \in BOOLEAN
    /\ pc = "start"
    /\ unique = <<>>
    /\ idx = 0
    /\ stats = InitStats
    /\ valid_contacts = <<>>
    /\ invalid_contacts = <<>>
    /\ audit = <<>>
    /\ report = None
    /\ Idle

\* Lines 250-254
RemoveDuplicates ==
    /\ pc = "start"
    /\ LET d == remove_duplicates(contacts)
       IN  /\ unique' = d.unique
           /\ stats' = [stats EXCEPT !.total_contacts = Len(contacts),
                                     !.duplicates_removed = d.duplicates]
    /\ idx' = 1
    /\ pc' = "loop"
    /\ UNCHANGED <<contacts, check_mx, valid_contacts, invalid_contacts, audit,
                   report, arg, oracle, ret>>

\* Lines 257-316: one pass of the loop.  An exception leaves the loop and the
\* method (lines 321-323 log it and raise it again).
ValidateContact ==
    /\ pc = "loop"
    /\ idx <= Len(unique)
    /\ \E validators_ok \in BOOLEAN,
          mx_outcome \in (IF check_mx THEN MxOutcomes ELSE {"found"}) :
         \E r \in {CollectIssues(unique[idx], check_mx, validators_ok, mx_outcome)} :
         \E v \in {IsClassifiedValid(r.errors)} :
             IF r.raised
             THEN /\ pc' = "failed"
                  /\ UNCHANGED <<idx, stats, valid_contacts, invalid_contacts, audit>>
             ELSE /\ pc' = "loop"
                  /\ idx' = idx + 1
                  /\ stats' = StatsAfter(stats, r)
                  /\ valid_contacts' =
                        IF v THEN Append(valid_contacts, r.contact) ELSE valid_contacts
                  /\ invalid_contacts' =
                        IF v THEN invalid_contacts
                        ELSE Append(invalid_contacts, WithErrors(r.contact, r.errors))
                  /\ audit' = Append(audit, [input |-> unique[idx], result |-> r,
                                             valid |-> v])
    /\ UNCHANGED <<contacts, check_mx, unique, report, arg, oracle, ret>>

\* Line 318
Finish ==
    /\ pc = "loop"
    /\ idx > Len(unique)
    /\ stats' = [stats EXCEPT !.validation_time = "elapsed"]
    /\ pc' = "done"
    /\ UNCHANGED <<contacts, check_mx, unique, idx, valid_contacts,
                   invalid_contacts, audit, report, arg, oracle, ret>>

\* main, lines 476-479: the report of a run that completed
GenerateReport ==
    /\ pc = "done"
    /\ report' = generate_report(stats)
    /\ pc' = "reported"
    /\ UNCHANGED <<contacts, check_mx, unique, idx, stats, valid_contacts,
                   invalid_contacts, audit, arg, oracle, ret>>

Next ==
    \/ RemoveDuplicates
    \/ ValidateContact
    \/ Finish
    \/ GenerateReport

Spec == Init /\ [][Next]_vars

-----------------------------------------------------------------------------
(* Properties of a run of validate_contact_list *)

Completed == pc \in {"done", "reported"}

\* the pieces of an email with exactly one '@'
LocalOf(email) == SubSeq(email, 1, (CHOOSE i \in 1..Len(email) : email[i] = "@") - 1)

DomainOf(email) ==
    SubSeq(email, (CHOOSE i \in 1..Len(email) : email[i] = "@") + 1, Len(email))

Normalized(email) == Lower(Strip(email))

BlankAt == {i \in 1..Len(contacts) : Normalized(contacts[i].email) = <<>>}

\* C1: when validate_contact_list completes, valid_contacts +
\* invalid_contacts + duplicates_removed equals total_contacts, the number of
\* the records loaded (blank-email records and duplicates included).
C1_CountsAddUp ==
    Completed =>
        /\ stats.total_contacts = Len(contacts)
        /\ stats.valid_contacts + stats.invalid_contacts + stats.duplicates_removed
               = stats.total_contacts

\* A completed run that removed a record with a blank email and classified
\* another record.
C1_Witness ==
    /\ Completed
    /\ BlankAt # {}
    /\ stats.duplicates_removed > 0
    /\ stats.valid_contacts + stats.invalid_contacts > 0

IsTypoNote(issue) == StartsWith(issue, <<"D", "o", "m", "a", "i", "n", " ", "t", "y", "p", "o", " ", "c", "o", "r", "r", "e", "c", "t", "e", "d", ":", " ">>)

\* C2: a record is classified Valid if and only if every issue collected for
\* it is a typo-correction note (none collected included); any other issue
\* makes it Invalid.
C2_ValidIffOnlyTypoNotes ==
    \A i \in 1..Len(audit) :
        audit[i].valid <=>
            \A k \in 1..Len(audit[i].result.errors) :
                IsTypoNote(audit[i].result.errors[k])

\* C4: when records with a blank email are loaded, the first of them is kept
\* by remove_duplicates and is classified, and only the later ones are counted
\* in duplicates_removed.
C4_FirstBlankKept ==
    (pc # "start" /\ BlankAt # {}) =>
        LET first == CHOOSE i \in BlankAt : \A j \in BlankAt : i <= j
        IN  /\ \E k \in 1..Len(unique) : unique[k] = contacts[first]
            /\ Cardinality({k \in 1..Len(unique) :
                              Normalized(unique[k].email) = <<>>}) = 1
            /\ stats.duplicates_removed =
                  Len(contacts)
                  - Cardinality({Normalized(contacts[i].email) : i \in 1..Len(contacts)})
            /\ Completed => \E k \in 1..Len(audit) : audit[k].input = contacts[first]

HasLetter(s) == \E i \in 1..Len(s) : s[i] \in Letters

\* What C5 asks of the email of a record: well formed, not of a disposable
\* domain, no placeholder.
GoodEmail(a) ==
    /\ a.result.format_valid
    /\ ~check_disposable_email(Normalized(a.input.email))
    /\ ~MatchesTestPattern(Normalized(a.input.email))

\* C5 as stated: with MX checking off, a record with a good email and a first
\* name of two or more characters, a letter among them, is Valid whatever its
\* company.
C5_GoodRecordValid ==
    \A i \in 1..Len(audit) :
        ( /\ ~check_mx
          /\ GoodEmail(audit[i])
          /\ Len(audit[i].input.first_name) >= 2
          /\ HasLetter(audit[i].input.first_name) )
        => audit[i].valid

GoodNameAndCompany(c) ==
    /\ Len(Strip(c.first_name)) >= 2
    /\ HasLetter(Strip(c.first_name))
    /\ Strip(c.company) = <<>> \/ Len(Strip(c.company)) >= 2

\* C5, amended: with MX checking off, a record with a good email, a first
\* name of two or more characters after trimming, a letter among them, and a
\* company that is blank or of two or more characters after trimming, is
\* Valid.
C5_GoodRecordValidAmended ==
    \A i \in 1..Len(audit) :
        (~check_mx /\ GoodEmail(audit[i]) /\ GoodNameAndCompany(audit[i].input))
        => audit[i].valid

\* Two good records were classified with MX checking off: one has a company,
\* the other had its domain corrected.
C5_Witness ==
    /\ ~check_mx
    /\ \E i, j \in 1..Len(audit) :
          /\ GoodEmail(audit[i]) /\ GoodNameAndCompany(audit[i].input)
          /\ Strip(audit[i].input.company) # <<>>
          /\ GoodEmail(audit[j]) /\ GoodNameAndCompany(audit[j].input)
          /\ audit[j].result.contact.email # audit[j].input.email

\* C7: no record makes the run fail: validate_contact_list runs to
\* completion, and then every record remove_duplicates kept is classified.
C7_NoRecordIsFatal ==
    /\ pc # "failed"
    /\ Completed => Len(audit) = Len(unique)

IsRateLine(line) == StartsWith(line, <<"V", "a", "l", "i", "d", "a", "t", "i", "o", "n", " ", "r", "a", "t", "e">>)

\* C8 as stated: the report of a run over zero records is rendered without a
\* failure and has a validation-rate line showing 0.0%.
C8_ZeroRunShowsRate ==
    (pc = "reported" /\ stats.total_contacts = 0) =>
        /\ ~report.raised
        /\ \E k \in 1..Len(report.value) :
              IsRateLine(report.value[k]) /\ Contains(report.value[k], <<"0", ".", "0", "%">>)

\* C8, amended: the report of a run over zero records is rendered without a
\* failure and has no validation-rate line.
C8_ZeroRunOmitsRate ==
    (pc = "reported" /\ stats.total_contacts = 0) =>
        /\ ~report.raised
        /\ \A k \in 1..Len(report.value) : ~IsRateLine(report.value[k])

\* The report of a run over zero records was generated.
C8_Witness == pc = "reported" /\ stats.total_contacts = 0 /\ ~report.raised

\* The MX lookups made so far for a domain, in order: indices into audit
LookupsOf(domain) ==
    {i \in 1..Len(audit) :
        audit[i].result.lookup.done /\ audit[i].result.lookup.domain = domain}

\* C10: the validity stored for a domain is the outcome of the latest MX
\* lookup made for it, and its count is the number of the lookups made for it.
C10_LatestValidityStored ==
    \A k \in 1..Len(stats.domain_stats) :
        LET domain == stats.domain_stats[k][1]
            entry  == stats.domain_stats[k][2]
            made   == LookupsOf(domain)
            last   == CHOOSE i \in made : \A j \in made : j <= i
        IN  /\ made # {}
            /\ entry.count = Cardinality(made)
            /\ entry.valid = audit[last].result.lookup.mx_valid

\* The check an issue comes from, by its text: 1 required fields, 2 typo
\* correction, 3 format, 4 disposable, 5 MX, 6 quality heuristics.
StageOfIssue(issue) ==
    IF StartsWith(issue, <<"M", "i", "s", "s", "i", "n", "g", " ", "r", "e", "q", "u", "i", "r", "e", "d", " ", "f", "i", "e", "l", "d", "s", ":", " ">>) THEN 1
    ELSE IF StartsWith(issue, <<"D", "o", "m", "a", "i", "n", " ", "t", "y", "p", "o", " ", "c", "o", "r", "r", "e", "c", "t", "e", "d", ":", " ">>) THEN 2
    ELSE IF StartsWith(issue, <<"E", "m", "a", "i", "l", " ", "f", "o", "r", "m", "a", "t", ":", " ">>) THEN 3
    ELSE IF issue = <<"D", "i", "s", "p", "o", "s", "a", "b", "l", "e", " ", "e", "m", "a", "i", "l", " ", "a", "d", "d", "r", "e", "s", "s">> THEN 4
    ELSE IF StartsWith(issue, <<"D", "o", "m", "a", "i", "n", " ", "v", "a", "l", "i", "d", "a", "t", "i", "o", "n", ":", " ">>) THEN 5
    ELSE 6

HasIssueOf(errors, stage) ==
    \E k \in 1..Len(errors) : StageOfIssue(errors[k]) = stage

InStageOrder(errors) ==
    \A j \in 1..Len(errors) :
        \A k \in j..Len(errors) : StageOfIssue(errors[j]) <= StageOfIssue(errors[k])

FieldsPresent(c) == Strip(c.email) # <<>> /\ Strip(c.first_name) # <<>>

\* What the checks of a classified record a left behind, when the MX lookup
\* is expected to have been made exactly if mx_expected: the issues are in
\* the order of the checks; with a required field missing there is that one
\* issue and nothing else was done; with the fields present the typo
\* correction was applied, the format check read the email it left, and the
\* disposable check, the MX lookup and the quality heuristics each left
\* their issue exactly when they have one to report.
ChecksAsOrdered(a, mx_expected) ==
    LET r      == a.result
        email0 == Normalized(a.input.email)
        typo   == Count(email0, "@") = 1 /\ DomainOf(email0) \in TypoKeys
        email  == IF typo THEN LocalOf(email0) \o <<"@">> \o TypoValue(DomainOf(email0))
                  ELSE email0
    IN  /\ InStageOrder(r.errors)
        /\ ~FieldsPresent(a.input) =>
              /\ Len(r.errors) = 1
              /\ StageOfIssue(r.errors[1]) = 1
              /\ r.contact = a.input
              /\ r.format_input = None
              /\ ~r.lookup.done
        /\ FieldsPresent(a.input) =>
              /\ Count(email0, "@") <= 1
              /\ ~HasIssueOf(r.errors, 1)
              /\ HasIssueOf(r.errors, 2) <=> typo
              /\ r.contact.email = IF typo THEN email ELSE a.input.email
              /\ r.format_input = email
              /\ HasIssueOf(r.errors, 3) <=> ~r.format_valid
              /\ HasIssueOf(r.errors, 4) <=>
                    (Count(email, "@") = 1 /\ DomainOf(email) \in disposable_domains)
              /\ r.lookup.done <=> mx_expected
              /\ HasIssueOf(r.errors, 5) <=> (r.lookup.done /\ ~r.lookup.mx_valid)
              /\ HasIssueOf(r.errors, 6) <=> (check_data_quality(r.contact) # <<>>)

-----------------------------------------------------------------------------
(* The functions applied on their own: the argument is drawn by the initial *)
(* predicate, the one action applies the function to it.                    *)

NoRun ==
    /\ contacts = <<>>
    /\ check_mx = FALSE
    /\ pc = "call"
    /\ unique = <<>>
    /\ idx = 0
    /\ stats = InitStats
    /\ valid_contacts = <<>>
    /\ invalid_contacts = <<>>
    /\ audit = <<>>
    /\ report = None
    /\ ret = None

RunVars == <<contacts, check_mx, unique, idx, stats, valid_contacts,
             invalid_contacts, audit, report>>

(* remove_duplicates *)

MaxDedupLen == 3

InitDedup ==
    /\ NoRun
    /\ arg \in SeqsUpTo(ContactPool, MaxDedupLen)
    /\ oracle = FALSE

CallRemoveDuplicates ==
    /\ pc = "call"
    /\ ret' = remove_duplicates(arg)
    /\ pc' = "return"
    /\ UNCHANGED <<RunVars, arg, oracle>>

SpecDedup == InitDedup /\ [][CallRemoveDuplicates]_vars

\* the indices of the records no earlier record has the normalized email of
FirstOccurrences(cs) ==
    {i \in 1..Len(cs) :
        \A j \in 1..(i - 1) : Normalized(cs[j].email) # Normalized(cs[i].email)}

\* C3: given records whose normalized emails are not blank, remove_duplicates
\* returns the first occurrence of each normalized email, in the order of the
\* input; a record is removed only if an earlier one has its normalized email.
C3_FirstOccurrencesInOrder ==
    ( /\ pc = "return"
      /\ \A i \in 1..Len(arg) : Normalized(arg[i].email) # <<>> )
    => LET firsts == FirstOccurrences(arg)
       IN  /\ Len(ret.unique) = Cardinality(firsts)
           /\ \A k \in 1..Len(ret.unique) :
                 ret.unique[k] =
                    arg[CHOOSE i \in firsts : Cardinality({j \in firsts : j <= i}) = k]

\* remove_duplicates kept two records and removed a third, whose email is
\* written differently from the earlier record it repeats.
C3_Witness ==
    /\ pc = "return"
    /\ \A i \in 1..Len(arg) : Normalized(arg[i].email) # <<>>
    /\ Len(ret.unique) = 2
    /\ \E i \in 1..Len(arg), j \in 1..Len(arg) :
          /\ j < i
          /\ i \notin FirstOccurrences(arg)
          /\ Normalized(arg[j].email) = Normalized(arg[i].email)
          /\ arg[j].email # arg[i].email

(* check_domain_typos *)

MaxTypoLocal == 2

Strings(alphabet, n) == UNION {[1..k -> alphabet] : k \in 0..n}

TypoLocals == Strings({"u", "."}, MaxTypoLocal)

TypoDomains == TypoKeys \cup { <<"g", "m", "a", "i", "l", ".", "c", "o", "m">>, <<"b", ".", "c", "o">>, <<>> }

\* emails with no '@', with one and with two
TypoInputs ==
    TypoLocals
    \cup {l \o <<"@">> \o d : l \in TypoLocals, d \in TypoDomains}
    \cup {l \o <<"@">> \o d \o <<"@">> \o e :
            l \in TypoLocals, d \in TypoDomains, e \in {<<"g", "m", "a", "i", ".", "c", "o", "m">>, <<"b", ".", "c", "o">>}}

InitTypos ==
    /\ NoRun
    /\ arg \in TypoInputs
    /\ oracle = FALSE

CallCheckDomainTypos ==
    /\ pc = "call"
    /\ ret' = check_domain_typos(arg)
    /\ pc' = "return"
    /\ UNCHANGED <<RunVars, arg, oracle>>

SpecTypos == InitTypos /\ [][CallCheckDomainTypos]_vars

\* C6: check_domain_typos never fails: it returns local@canonical for an email
\* with exactly one '@' whose domain is a key of the typo table, and the input
\* unchanged for every other email (no '@', several '@', another domain).
C6_TyposNeverFail ==
    pc = "return" =>
        /\ ~ret.raised
        /\ ret.value =
              IF Count(arg, "@") = 1 /\ DomainOf(arg) \in TypoKeys
              THEN LocalOf(arg) \o <<"@">> \o TypoValue(DomainOf(arg))
              ELSE arg

(* validate_email_format *)

MaxFmtLocal == 2

MaxFmtDomain == 2

FmtLocals ==
    Strings({"a", "."}, MaxFmtLocal)
    \cup {Rep("a", MaxLocalPart), Rep("a", MaxLocalPart + 1)}

\* with the tail ".co" the two long ones make a domain of MaxDomainPart
\* characters and one of MaxDomainPart + 1
FmtDomainHeads ==
    Strings({"b", "-"}, MaxFmtDomain)
    \cup {Rep("b", MaxDomainPart - 3), Rep("b", MaxDomainPart - 2)}

FmtDomainTails == { <<>>, <<".", "c", "o">>, <<".", "C", "o", "-">>, <<".", "c">> }

FmtPads == { <<>>, <<" ">> }

FormatInputs ==
    {p \o l \o a \o h \o t \o q :
        p \in FmtPads, l \in FmtLocals, a \in { <<>>, <<"@">>, <<"@", "@">> },
        h \in FmtDomainHeads, t \in FmtDomainTails, q \in FmtPads}

InitFormat ==
    /\ NoRun
    /\ arg \in FormatInputs
    /\ oracle \in BOOLEAN

CallValidateEmailFormat ==
    /\ pc = "call"
    /\ ret' = validate_email_format(arg, oracle)
    /\ pc' = "return"
    /\ UNCHANGED <<RunVars, arg, oracle>>

SpecFormat == InitFormat /\ [][CallValidateEmailFormat]_vars

\* The rules of the format contract, each stated of a string x.
\* Rule 2: local characters, '@', domain characters, '.', two or more letters.
Rule2(x) ==
    \E a \in {i \in 1..Len(x) : x[i] = "@"} :
    \E d \in {i \in 1..Len(x) : x[i] = "."} :
        /\ 1 < a /\ a + 1 < d /\ d + 2 <= Len(x)
        /\ \A i \in 1..(a - 1) : x[i] \in LocalChars
        /\ \A i \in (a + 1)..(d - 1) : x[i] \in DomainChars
        /\ \A i \in (d + 1)..Len(x) : x[i] \in Letters

\* Rule 4: exactly one '@'
Rule4(x) == Cardinality({i \in 1..Len(x) : x[i] = "@"}) = 1

\* Rule 5: the local part has at most 64 characters
Rule5(x) == Len(LocalOf(x)) <= 64

\* Rule 6: the local part has no dot first, last or after a dot
Rule6(x) ==
    LET l == LocalOf(x)
    IN  /\ l # <<>> => l[1] # "." /\ l[Len(l)] # "."
        /\ \A i \in 1..(Len(l) - 1) : ~(l[i] = "." /\ l[i + 1] = ".")

\* Rule 7: the domain has at most 253 characters
Rule7(x) == Len(DomainOf(x)) <= 253

\* Rule 8: the domain has no hyphen first or last
Rule8(x) ==
    LET d == DomainOf(x)
    IN  d # <<>> => d[1] # "-" /\ d[Len(d)] # "-"

\* The first rule violated, 0 when none is: rule 1 (a non-empty string) read
\* of the string raw, rules 2 and 4 to 8 of the string x, rule 3 the answer of
\* the grammar check.
FirstViolated(raw, x, grammar_ok) ==
    IF raw = <<>> THEN 1
    ELSE IF ~Rule2(x) THEN 2
    ELSE IF ~grammar_ok THEN 3
    ELSE IF ~Rule4(x) THEN 4
    ELSE IF ~Rule5(x) THEN 5
    ELSE IF ~Rule6(x) THEN 6
    ELSE IF ~Rule7(x) THEN 7
    ELSE IF ~Rule8(x) THEN 8
    ELSE 0

\* the rule a reason reports
RuleOfReason(reason) ==
    CASE reason = <<"E", "m", "p", "t", "y", " ", "o", "r", " ", "i", "n", "v", "a", "l", "i", "d", " ", "e", "m", "a", "i", "l">>                         -> 1
      [] reason = <<"I", "n", "v", "a", "l", "i", "d", " ", "e", "m", "a", "i", "l", " ", "f", "o", "r", "m", "a", "t">>                           -> 2
      [] reason = <<"I", "n", "v", "a", "l", "i", "d", " ", "e", "m", "a", "i", "l", " ", "f", "o", "r", "m", "a", "t", " ", "(", "f", "a", "i", "l", "e", "d", " ", "v", "a", "l", "i", "d", "a", "t", "o", "r", "s", " ", "c", "h", "e", "c", "k", ")">> -> 3
      [] reason = <<"M", "u", "l", "t", "i", "p", "l", "e", " ", "@", " ", "s", "y", "m", "b", "o", "l", "s">>                             -> 4
      [] reason = <<"L", "o", "c", "a", "l", " ", "p", "a", "r", "t", " ", "t", "o", "o", " ", "l", "o", "n", "g">>                            -> 5
      [] reason = <<"L", "o", "c", "a", "l", " ", "p", "a", "r", "t", " ", "c", "a", "n", "n", "o", "t", " ", "s", "t", "a", "r", "t", "/", "e", "n", "d", " ", "w", "i", "t", "h", " ", "d", "o", "t">>           -> 6
      [] reason = <<"C", "o", "n", "s", "e", "c", "u", "t", "i", "v", "e", " ", "d", "o", "t", "s", " ", "i", "n", " ", "l", "o", "c", "a", "l", " ", "p", "a", "r", "t">>                 -> 6
      [] reason = <<"D", "o", "m", "a", "i", "n", " ", "t", "o", "o", " ", "l", "o", "n", "g">>                                -> 7
      [] reason = <<"D", "o", "m", "a", "i", "n", " ", "c", "a", "n", "n", "o", "t", " ", "s", "t", "a", "r", "t", "/", "e", "n", "d", " ", "w", "i", "t", "h", " ", "h", "y", "p", "h", "e", "n">>            -> 8
      [] OTHER                                                      -> 0

\* C9 as stated: validate_email_format passes exactly the strings that
\* satisfy the eight rules, and on a failure its one reason is that of the
\* first rule the string violates.
C9_FirstViolatedRule ==
    pc = "return" =>
        LET v == FirstViolated(arg, arg, oracle)
        IN  IF ret[1] THEN v = 0 ELSE v # 0 /\ RuleOfReason(ret[2]) = v

\* C9, amended: the same, with rule 1 read of the string as given and the
\* other rules of the string trimmed of surrounding whitespace and lower-cased.
C9_FirstViolatedRuleNormalized ==
    pc = "return" =>
        LET v == FirstViolated(arg, Normalized(arg), oracle)
        IN  IF ret[1] THEN v = 0 ELSE v # 0 /\ RuleOfReason(ret[2]) = v

\* validate_email_format passed a string written with surrounding whitespace.
C9_Witness == pc = "return" /\ ret[1] /\ arg # Strip(arg)

=============================================================================
